---- MODULE Spec2Model ----
(***************************************************************************)
(* Model of found_CLI_tools.noise_generator_image: the five image          *)
(* operators of noise.py and the interactive driver of __main__.py; and of *)
(* found_CLI_tools.edge_point_gen.projection: generate_edge_point.         *)
(*                                                                         *)
(* An image is a record [h, w, c, nd, px]: px is the numpy buffer in C     *)
(* order, element (r, col, ch) at index (r*w + col)*c + ch + 1, values     *)
(* uint8; nd is the number of axes of the array: 3 for shape (h, w, c),    *)
(* 2 for shape (h, w), which has c = 1.                                    *)
(* Real-valued quantities are exact rationals: a probability is its        *)
(* numerator over ProbDen, a distortion coefficient its numerator over     *)
(* CoefDen, a standard-normal draw its numerator over ZDen.                *)
(***************************************************************************)
EXTENDS Integers, Sequences, FiniteSets, TLC

VARIABLES pc, loaded, base_image, result, params, calls, shown, key, saved,
          writes, exit_code, nops, edge

vars == <<pc, loaded, base_image, result, params, calls, shown, key, saved,
          writes, exit_code, nops, edge>>

(***************************************************************************)
(* Bounds of the model.                                                    *)
(***************************************************************************)
MaxH == 2
ZMax == 1
MaxOps == 3
MaxKernel == 4

(***************************************************************************)
(* Program constants.                                                      *)
(***************************************************************************)
ImreadChannels == 3
ProbDen == 1000
CoefDen == 100
ZDen == 2
KeyMask == 255
KeyEsc == 27
KeyLowerS == 115
KeyUpperS == 83
InterTabSize == 32
SigmaDefault == 10
ProbMax == 100
DiscretizationMax == 32
CoefMax == 100
MotionMax == 100

None == [h |-> 0, w |-> 0, c |-> 0, nd |-> 0, px |-> <<>>]

Min(a, b) == IF a < b THEN a ELSE b
Max(a, b) == IF a > b THEN a ELSE b
Clamp(x, lo, hi) == Max(lo, Min(x, hi))

\* Python int(x) / a C cast of a real: truncation toward zero of num/den, den > 0.
TruncDiv(num, den) == IF num >= 0 THEN num \div den ELSE -((-num) \div den)

\* Python math.ceil / np.ceil of num/den, den > 0.
CeilDiv(num, den) == -((-num) \div den)

\* cvRound: round num/den to the nearest integer, ties to even, den > 0.
CvRound(num, den) ==
    LET f == num \div den
        r2 == 2 * (num - f * den)
    IN  IF r2 < den THEN f
        ELSE IF r2 > den THEN f + 1
        ELSE IF f % 2 = 0 THEN f ELSE f + 1

Size(image) == image.h * image.w * image.c

Idx(image, r, col, ch) == (r * image.w + col) * image.c + ch + 1

\* The element at (r, col, ch), or the constant border value 0 outside the image.
AtOrZero(image, r, col, ch) ==
    IF r \in 0..(image.h - 1) /\ col \in 0..(image.w - 1)
    THEN image.px[Idx(image, r, col, ch)] ELSE 0

\* ndarray.shape
Shape(image) == IF image.nd = 3 THEN <<image.h, image.w, image.c>> ELSE <<image.h, image.w>>

SameShape(a, b) == Shape(a) = Shape(b)

\* The ndarray OpenCV's Python binding returns for a result: a result with one
\* channel comes back as a two-axis array (h, w), without the channel axis.
cv_out(image) == IF image.c = 1 THEN [image EXCEPT !.nd = 2] ELSE image

ValidImage(image) ==
    /\ Len(image.px) = Size(image)
    /\ \A i \in 1..Len(image.px) : image.px[i] \in 0..255

(***************************************************************************)
(* add_gaussian_noise (noise.py:12-24).                                    *)
(***************************************************************************)
\* np.random.normal(mean, sigma): mean + sigma * z for a standard draw z = zn/ZDen;
\* the result is the numerator over ZDen.
NormalSample_DefaultSigma(mean, sigma, zn) == mean * ZDen + SigmaDefault * zn

NormalSample(mean, sigma, zn) == mean * ZDen + sigma * zn

\* ndarray.astype("uint8") of the float num/den: the fraction is truncated toward
\* zero.  A truncated value outside 0..255 is not representable and the C cast is
\* undefined: builds either keep the low byte ("wrap") or saturate ("saturate").
CastModes == {"wrap", "saturate"}

astype_uint8(num, den, mode) ==
    LET t == TruncDiv(num, den)
    IN  IF t \in 0..255 THEN t
        ELSE IF mode = "wrap" THEN t % 256
        ELSE Clamp(t, 0, 255)

\* cv2.add on uint8: saturating element-wise sum.
cv_add(a, b) == Min(a + b, 255)

\* z is the array of standard draws, one numerator per element.
add_gaussian_noise(image, mean, sigma, z, mode) ==
    cv_out([image EXCEPT !.px =
        [i \in 1..Size(image) |->
            cv_add(image.px[i],
                   astype_uint8(NormalSample(mean, sigma, z[i]), ZDen, mode))]])

(***************************************************************************)
(* add_salt_pepper_noise (noise.py:27-48).                                 *)
(***************************************************************************)
\* np.ceil(prob * image.size), prob = probNum / ProbDen.
NumCorrupted_AtLeastOne(image, probNum) == Max(1, CeilDiv(probNum * Size(image), ProbDen))

NumCorrupted(image, probNum) == CeilDiv(probNum * Size(image), ProbDen)

\* np.random.randint(low, high, n) draws from low..high-1 (high is exclusive).
RandintRange(low, high) == low..(high - 1)

\* The values np.random.randint(0, i - 1, n) can draw for an axis of size i.
AxisDraws(i) == RandintRange(0, i - 1)

\* np.random.randint raises ValueError (low >= high) when the range is empty and
\* at least one value is asked for; with n = 0 it returns an empty array.
RandintRaises(low, high, n) == n > 0 /\ RandintRange(low, high) = {}

\* for i in image.shape
AxisSizes(image) == Shape(image)

CoordsRaise(image, n) ==
    \E a \in 1..Len(AxisSizes(image)) : RandintRaises(0, AxisSizes(image)[a] - 1, n)

\* The coordinate arrays one draw of n positions can produce: n triples
\* <<row, column, channel>>, each index drawn independently along its axis
\* (a two-axis array has no channel index: it is 0 here).
CoordDraws(image, n) ==
    [1..n -> AxisDraws(image.h) \X AxisDraws(image.w)
                \X (IF image.nd = 3 THEN AxisDraws(image.c) ELSE {0})]

\* noisy[tuple(coords)] = value
AssignAt_WholePixel(image, coords, value) ==
    [image EXCEPT !.px =
        [i \in 1..Size(image) |->
            IF \E j \in 1..Len(coords), ch \in 0..(image.c - 1) :
                  i = Idx(image, coords[j][1], coords[j][2], ch)
            THEN value ELSE image.px[i]]]

AssignAt(image, coords, value) ==
    [image EXCEPT !.px =
        [i \in 1..Size(image) |->
            IF \E j \in 1..Len(coords) :
                  i = Idx(image, coords[j][1], coords[j][2], coords[j][3])
            THEN value ELSE image.px[i]]]

add_salt_pepper_noise_raises(image, saltNum, pepperNum) ==
    \/ CoordsRaise(image, NumCorrupted(image, saltNum))
    \/ CoordsRaise(image, NumCorrupted(image, pepperNum))

add_salt_pepper_noise_PepperFirst(image, saltCoords, pepperCoords) ==
    AssignAt(AssignAt(image, pepperCoords, 0), saltCoords, 255)

add_salt_pepper_noise(image, saltCoords, pepperCoords) ==
    AssignAt(AssignAt(image, saltCoords, 255), pepperCoords, 0)

(***************************************************************************)
(* apply_radial_distortion (noise.py:51-70).                               *)
(***************************************************************************)
\* cv2.initUndistortRectifyMap with K = [[1,0,w/2],[0,1,h/2],[0,0,1]],
\* D = (k1, k2, p1, p2, 0), R = None and the new camera matrix K: the source
\* coordinate of destination pixel (u, v), as a numerator over 32 * CoefDen.
\* With X = 2u - w and Y = 2v - h the normalised point is (X/2, Y/2) and
\* r^2 = (X^2 + Y^2) / 4.
MapDen == 32 * CoefDen

MapXNum_NoRecentre(w, h, u, v, k1, k2, p1, p2) ==
    LET X == 2 * u - w
        Y == 2 * v - h
        R == X * X + Y * Y
    IN  16 * CoefDen * X + 4 * k1 * R * X + k2 * R * R * X
          + 16 * p1 * X * Y + 8 * p2 * (R + 2 * X * X)

MapXNum(w, h, u, v, k1, k2, p1, p2) ==
    LET X == 2 * u - w
        Y == 2 * v - h
        R == X * X + Y * Y
    IN  16 * CoefDen * X + 4 * k1 * R * X + k2 * R * R * X
          + 16 * p1 * X * Y + 8 * p2 * (R + 2 * X * X) + 16 * CoefDen * w

MapYNum(w, h, u, v, k1, k2, p1, p2) ==
    LET X == 2 * u - w
        Y == 2 * v - h
        R == X * X + Y * Y
    IN  16 * CoefDen * Y + 4 * k1 * R * Y + k2 * R * R * Y
          + 8 * p1 * (R + 2 * Y * Y) + 16 * p2 * X * Y + 16 * CoefDen * h

\* cv2.remap, INTER_LINEAR, BORDER_CONSTANT with border value 0: the source
\* coordinate is rounded to 1/InterTabSize of a pixel and the four neighbours
\* are blended with fixed-point weights, rounding to nearest.
RemapAt(image, sx, sy, ch) ==
    LET ix == sx \div InterTabSize
        iy == sy \div InterTabSize
        ax == sx % InterTabSize
        ay == sy % InterTabSize
        sum == (InterTabSize - ax) * (InterTabSize - ay) * AtOrZero(image, iy, ix, ch)
                 + ax * (InterTabSize - ay) * AtOrZero(image, iy, ix + 1, ch)
                 + (InterTabSize - ax) * ay * AtOrZero(image, iy + 1, ix, ch)
                 + ax * ay * AtOrZero(image, iy + 1, ix + 1, ch)
        half == (InterTabSize * InterTabSize) \div 2
    IN  Clamp((sum + half) \div (InterTabSize * InterTabSize), 0, 255)

apply_radial_distortion(image, k1, k2, p1, p2) ==
    cv_out([image EXCEPT !.px =
        [i \in 1..Size(image) |->
            LET ch == (i - 1) % image.c
                u  == ((i - 1) \div image.c) % image.w
                v  == (i - 1) \div (image.c * image.w)
                sx == CvRound(MapXNum(image.w, image.h, u, v, k1, k2, p1, p2) * InterTabSize, MapDen)
                sy == CvRound(MapYNum(image.w, image.h, u, v, k1, k2, p1, p2) * InterTabSize, MapDen)
            IN  RemapAt(image, sx, sy, ch)]])

(***************************************************************************)
(* apply_motion_blur (noise.py:73-87).                                     *)
(***************************************************************************)
\* np.zeros((k, k)) raises for k < 0; kernel[int((k - 1) / 2), :] raises
\* IndexError for k = 0 (row 0 of an empty array).
apply_motion_blur_raises(kernel_size) == kernel_size <= 0

\* int((kernel_size - 1) / 2): the only non-zero row of the kernel.
KernelRow_Half(kernel_size) == kernel_size \div 2

KernelRow(kernel_size) == TruncDiv(kernel_size - 1, 2)

\* Lines 83-85: the kernel_size x kernel_size array of zeros whose row KernelRow
\* is set to ones, divided by kernel_size; entry [r][col] is the numerator over
\* kernel_size, rows and columns counted from 0.
MotionKernel(kernel_size) ==
    [r \in 0..(kernel_size - 1) |->
        [col \in 0..(kernel_size - 1) |-> IF r = KernelRow(kernel_size) THEN 1 ELSE 0]]

\* cv2.filter2D's default anchor (-1, -1): the kernel centre, kernel_size // 2.
KernelAnchor(kernel_size) == kernel_size \div 2

\* cv::borderInterpolate for BORDER_REFLECT_101, filter2D's default border: p is
\* reflected about 0 and len - 1 until it falls inside 0..len-1, which is the
\* triangle wave of period 2 * (len - 1).
Reflect101(p, len) ==
    IF len = 1 THEN 0
    ELSE LET q == p % (2 * (len - 1))
         IN  IF q < len THEN q ELSE 2 * (len - 1) - q

\* The number of kernel columns j in 0..kernel_size-1 whose tap for destination
\* column col falls, after border interpolation, on source column src of an
\* image w columns wide.
TapCount(col, src, w, kernel_size) ==
    Cardinality({j \in 0..(kernel_size - 1) :
                    Reflect101(col + j - KernelAnchor(kernel_size), w) = src})

\* The sum over the kernel's non-zero row of the elements it covers: each source
\* column of row r weighted by the number of taps that fall on it, columns cc
\* and above; taps[cc] is that number.
RECURSIVE RowSum(_, _, _, _, _)
RowSum(image, r, ch, taps, cc) ==
    IF cc = image.w THEN 0
    ELSE taps[cc] * image.px[Idx(image, Reflect101(r, image.h), cc, ch)]
         + RowSum(image, r, ch, taps, cc + 1)

\* cv2.filter2D(image, -1, kernel): correlation with the kernel whose row
\* KernelRow holds 1/kernel_size, rounded and saturated to uint8.
apply_motion_blur(image, kernel_size) ==
    LET taps == [col \in 0..(image.w - 1) |->
                    [src \in 0..(image.w - 1) |-> TapCount(col, src, image.w, kernel_size)]]
    IN  cv_out([image EXCEPT !.px =
            [i \in 1..Size(image) |->
                LET ch  == (i - 1) % image.c
                    col == ((i - 1) \div image.c) % image.w
                    r   == (i - 1) \div (image.c * image.w)
                    src == r + KernelRow(kernel_size) - KernelAnchor(kernel_size)
                IN  Clamp(CvRound(RowSum(image, src, ch, taps[col], 0), kernel_size),
                          0, 255)]])

(***************************************************************************)
(* apply_discretization (noise.py:90-104).                                 *)
(***************************************************************************)
DiscretizationFactor_One(levels) == 1

DiscretizationFactor_Levels(levels) == Max(1, IF levels < 1 THEN 1 ELSE levels)

DiscretizationFactor(levels) == Max(1, 256 \div (IF levels < 1 THEN 1 ELSE levels))

apply_discretization_Nearest(image, levels) ==
    [image EXCEPT !.px =
        [i \in 1..Size(image) |->
            Clamp(((image.px[i] + DiscretizationFactor(levels) \div 2)
                      \div DiscretizationFactor(levels))
                      * DiscretizationFactor(levels), 0, 255)]]

apply_discretization(image, levels) ==
    [image EXCEPT !.px =
        [i \in 1..Size(image) |->
            Clamp((image.px[i] \div DiscretizationFactor(levels))
                      * DiscretizationFactor(levels), 0, 255)]]

(***************************************************************************)
(* edge_point_gen.projection: generate_edge_point (projection.py:29-84).   *)
(*                                                                         *)
(* A Python value handed to float() is a record [t, v]: t = "num" for a     *)
(* finite number v, "nan" for float('nan'), "none" for a value float()     *)
(* rejects with TypeError (None), "text" for one it rejects with ValueError *)
(* (a non-numeric string).  An argument is [iterable, items]: a sequence   *)
(* of such values, or a value that cannot be iterated.                     *)
(***************************************************************************)
Num(v) == [t |-> "num", v |-> v]
NaN == [t |-> "nan", v |-> 0]
NoneValue == [t |-> "none", v |-> 0]
Text == [t |-> "text", v |-> 0]

Vector(items) == [iterable |-> TRUE, items |-> items]
NotIterable == [iterable |-> FALSE, items |-> <<>>]

\* A float result: the rational n/d, or nan.
Frac(n, d) == [t |-> "num", n |-> n, d |-> d]
NaNResult == [t |-> "nan", n |-> 0, d |-> 1]

Returned(x, y) == [kind |-> "FilmEdgePoint", x |-> x, y |-> y]
Raised(exc) == [kind |-> exc, x |-> NaNResult, y |-> NaNResult]

\* _coerce_vector, lines 34-42: float() of every component in order, then the
\* length check; the result is [err, vector] with err = "" when it returns.
coerce_vector(values, expected_length) ==
    IF ~values.iterable THEN [err |-> "TypeError", vector |-> <<>>]
    ELSE LET bad == {i \in 1..Len(values.items) : values.items[i].t \in {"none", "text"}}
         IN  IF bad # {}
             THEN LET first == CHOOSE i \in bad : \A j \in bad : i <= j
                  IN  [err |-> IF values.items[first].t = "none"
                               THEN "TypeError" ELSE "ValueError",
                       vector |-> <<>>]
             ELSE IF Len(values.items) # expected_length
             THEN [err |-> "ValueError", vector |-> <<>>]
             ELSE [err |-> "", vector |-> values.items]

\* Line 67: focal_length <= 0; every comparison with nan is False.
FocalLengthRejected(focal_length) == focal_length.t = "num" /\ focal_length.v <= 0

\* The squared norm of a quaternion (x, y, z, w); Rotation.from_quat raises
\* ValueError when it is zero and normalises otherwise.
QuatNorm2(q) == q[1].v * q[1].v + q[2].v * q[2].v + q[3].v * q[3].v + q[4].v * q[4].v

\* rotation.inv().apply(world_point), line 74: the transpose of the rotation
\* matrix of q applied to p; each coordinate is the numerator over QuatNorm2(q).
CameraXNum(q, p) ==
    (QuatNorm2(q) - 2 * (q[2].v * q[2].v + q[3].v * q[3].v)) * p[1].v
      + 2 * (q[1].v * q[2].v + q[3].v * q[4].v) * p[2].v
      + 2 * (q[1].v * q[3].v - q[2].v * q[4].v) * p[3].v

CameraYNum(q, p) ==
    2 * (q[1].v * q[2].v - q[3].v * q[4].v) * p[1].v
      + (QuatNorm2(q) - 2 * (q[1].v * q[1].v + q[3].v * q[3].v)) * p[2].v
      + 2 * (q[2].v * q[3].v + q[1].v * q[4].v) * p[3].v

CameraZNum(q, p) ==
    2 * (q[1].v * q[3].v + q[2].v * q[4].v) * p[1].v
      + 2 * (q[2].v * q[3].v - q[1].v * q[4].v) * p[2].v
      + (QuatNorm2(q) - 2 * (q[1].v * q[1].v + q[2].v * q[2].v)) * p[3].v

HasNaN(vector) == \E i \in 1..Len(vector) : vector[i].t = "nan"

\* Line 77: z_cam <= _EPSILON with _EPSILON = 1e-12 (line 18), for z_cam =
\* num/den: with integers num and 0 < den < 10^12, num/den <= 1e-12 exactly
\* when num <= 0.  Every comparison with nan is False.
BehindCamera(nan, num, den) == ~nan /\ num <= 0

generate_edge_point(point, quaternion, focal_length) ==
    IF FocalLengthRejected(focal_length) THEN Raised("ValueError")
    ELSE LET world_point == coerce_vector(point, 3)
             quat        == coerce_vector(quaternion, 4)
         IN  IF world_point.err # "" THEN Raised(world_point.err)
             ELSE IF quat.err # "" THEN Raised(quat.err)
             ELSE IF QuatNorm2(quat.vector) = 0 THEN Raised("ValueError")
             ELSE LET nan   == HasNaN(world_point.vector)
                      z_num == CameraZNum(quat.vector, world_point.vector)
                  IN  IF BehindCamera(nan, z_num, QuatNorm2(quat.vector))
                      THEN Raised("ValueError")
                      ELSE IF nan \/ focal_length.t = "nan"
                      THEN Returned(NaNResult, NaNResult)
                      ELSE Returned(
                             Frac(CameraXNum(quat.vector, world_point.vector)
                                    * focal_length.v, z_num),
                             Frac(CameraYNum(quat.vector, world_point.vector)
                                    * focal_length.v, z_num))

\* The state of a generate_edge_point call: its arguments and, once it has
\* ended, what it returned or raised.
NoEdge == [pc |-> "none", point |-> NotIterable, quaternion |-> NotIterable,
           focal_length |-> Num(0), outcome |-> Raised("")]

\* Arguments of a generate_edge_point call.
EdgeCoordinates == {-5, 0, 2, 10}

EdgePoints ==
    {NotIterable, Vector(<<Num(0), Num(1)>>), Vector(<<Num(0), Num(1), Num(5), Num(1)>>),
     Vector(<<Num(0), NoneValue, Num(5)>>), Vector(<<Num(0), Text, Num(5)>>),
     Vector(<<Num(0), Num(0), NaN>>)}
      \cup {Vector(<<Num(x), Num(-1), Num(z)>>) : x \in EdgeCoordinates, z \in EdgeCoordinates}

\* Quaternions (x, y, z, w): the identity, also unnormalised, half turns about
\* x and y, quarter turns about y and x, the zero quaternion; and malformed ones.
EdgeQuaternions ==
    {NotIterable, Vector(<<Num(0), Num(0), Num(1)>>),
     Vector(<<Num(0), Num(0), NoneValue, Num(1)>>)}
      \cup {Vector(<<Num(q[1]), Num(q[2]), Num(q[3]), Num(q[4])>>) :
              q \in {<<0, 0, 0, 1>>, <<0, 0, 0, 2>>, <<1, 0, 0, 0>>, <<0, 1, 0, 0>>,
                     <<0, 1, 0, 1>>, <<1, 0, 0, 1>>, <<0, 0, 0, 0>>}}

EdgeFocalLengths == {Num(-1), Num(0), Num(1), Num(35), NaN}

(***************************************************************************)
(* Inputs of the model: images, draws, widget and key values.              *)
(***************************************************************************)
\* An h x w x c image whose i-th element is start + (i-1)*step (mod 256):
\* constant for step = 0, otherwise distinct values at distinct positions.
Ramp(h, w, c, start, step) ==
    [h |-> h, w |-> w, c |-> c, nd |-> 3,
     px |-> [i \in 1..(h * w * c) |-> (start + (i - 1) * step) % 256]]

Contents == {<<128, 0>>, <<100, 37>>}

\* The smallest and the largest height.
Heights == {1, MaxH}

Widths == {1, 2}

\* What cv2.imread can return for a readable file: imread always decodes to
\* ImreadChannels channels.
LoadableContents == {<<100, 37>>}

LoadableImages ==
    {Ramp(h, w, ImreadChannels, s[1], s[2]) :
        h \in Heights, w \in Widths, s \in LoadableContents}

\* Arrays a caller can hand to a single operator call.
CallImages ==
    {Ramp(h, w, c, s[1], s[2]) :
        h \in Heights, w \in Widths, c \in {1, ImreadChannels}, s \in Contents}

\* Arrays a caller can hand to a sequence of operator calls.
OpsImages ==
    {Ramp(h, w, c, s[1], s[2]) :
        h \in Heights, w \in Widths, c \in {1, ImreadChannels}, s \in Contents}

\* Standard-normal draws (numerators over ZDen): the extremes and zero.
ZValues == {-ZMax, 0, ZMax}

\* The draws for an array of n elements: the element at p draws a, every other
\* element draws b.
NoiseFields(n) ==
    {[i \in 1..n |-> IF i = p THEN a ELSE b] : p \in {1, n}, a \in ZValues, b \in ZValues}

\* The draws of the call sequences' runs: p is the first element.
FirstElementFields(n) == {f \in NoiseFields(n) : \A i \in 2..n : f[i] = f[n]}

\* The draws of the driver's runs: every element draws the same value.
UniformFields(n) == {f \in NoiseFields(n) : \A i \in 1..n : f[i] = f[n]}

\* Values the trackbars can report (cv2.getTrackbarPos); every trackbar starts at
\* 0 except 'Discretization', which starts at 3, and all have minimum 0 and the
\* maximum given to cv2.createTrackbar: the two ends of each range.
SigmaRaws == {0, 3}
ProbRaws == {0, ProbMax}
DiscretizationRaws == {0, DiscretizationMax}
CoefRaws == {<<0, 0, 0, 0>>, <<50, 0, 25, CoefMax>>}
MotionRaws == {0, MotionMax}

\* Values cv2.waitKey(50) can return: -1 on timeout, a key code otherwise,
\* on some backends with modifier bits above the low byte.
WaitKeyValues == {-1, 27, 115, 83, 113, 1048603, 1048691}

\* cv2.imwrite returns True when the file was written and False when not.
ImwriteResults == {TRUE, FALSE}

NoParams ==
    [sigma |-> 0, salt |-> 0, pepper |-> 0, discretization_levels |-> 0,
     k1 |-> 0, k2 |-> 0, p1 |-> 0, p2 |-> 0, motion_kernel |-> 0]

\* One operator call: its name, the buffer passed, the parameters passed, the
\* random draws it consumed and the buffer it returned.
Call(op, arg, args, draws, out) ==
    [op |-> op, arg |-> arg, args |-> args, draws |-> draws, out |-> out]

StageOrder == <<"distortion", "gaussian", "salt_pepper", "discretization", "motion_blur">>

(***************************************************************************)
(* main and interactive_noise_adjustment (__main__.py).                    *)
(***************************************************************************)
Init ==
    /\ pc = "main"
    /\ loaded = None
    /\ base_image = None
    /\ result = None
    /\ params = NoParams
    /\ calls = <<>>
    /\ shown = None
    /\ key = -1
    /\ saved = FALSE
    /\ writes = <<>>
    /\ exit_code = -1
    /\ nops = 0
    /\ edge = NoEdge

\* main, lines 145-155: cv2.imread returns an image or None; None ends main with 1.
MainLoad ==
    /\ pc = "main"
    /\ \E img \in LoadableImages \cup {None} :
        /\ loaded' = img
        /\ base_image' = img
        /\ IF img = None
           THEN pc' = "exit" /\ exit_code' = 1
           ELSE pc' = "window" /\ exit_code' = exit_code
    /\ UNCHANGED <<edge, result, params, calls, shown, key, saved, writes, nops>>

\* interactive_noise_adjustment, lines 47-68: window, trackbars, saved = False.
CreateWindow ==
    /\ pc = "window"
    /\ saved' = FALSE
    /\ pc' = "loop"
    /\ UNCHANGED <<edge, loaded, base_image, result, params, calls, shown, key, writes,
                   exit_code, nops>>

\* max(1, cv2.getTrackbarPos(...)), lines 75 and 80.
FloorOne_Raw(raw) == raw

FloorOne(raw) == Max(1, raw)

\* The buffer line 83 passes to the first stage: base_image.copy().
FirstStageInput_PreviousFrame == IF result = None THEN base_image ELSE result

FirstStageInput == base_image

\* The buffer lines 84-87 pass to a later stage: the previous stage's output.
NextStageInput_Base == base_image

NextStageInput == result

\* Lines 72-83: read the nine trackbars, then the distortion stage.
ReadAndDistort ==
    /\ pc = "loop"
    /\ \E sg \in SigmaRaws, sa \in ProbRaws, pe \in ProbRaws,
          dl \in DiscretizationRaws, co \in CoefRaws, mk \in MotionRaws :
        LET p == [sigma |-> sg, salt |-> sa, pepper |-> pe,
                  discretization_levels |-> FloorOne(dl),
                  k1 |-> co[1], k2 |-> co[2], p1 |-> co[3], p2 |-> co[4],
                  motion_kernel |-> FloorOne(mk)]
            arg == FirstStageInput
            out == apply_radial_distortion(arg, p.k1, p.k2, p.p1, p.p2)
        IN  /\ params' = p
            /\ result' = out
            /\ calls' = <<Call("distortion", arg, <<p.k1, p.k2, p.p1, p.p2>>, <<>>, out)>>
    /\ pc' = "gaussian"
    /\ UNCHANGED <<edge, loaded, base_image, shown, key, saved, writes, exit_code, nops>>

\* Line 84: result = add_gaussian_noise(result, sigma=sigma); mean keeps its default 0.
StageGaussian ==
    /\ pc = "gaussian"
    /\ \E z \in UniformFields(Size(NextStageInput)), mode \in CastModes :
        LET arg == NextStageInput
            out == add_gaussian_noise(arg, 0, params.sigma, z, mode)
        IN  /\ result' = out
            /\ calls' = Append(calls, Call("gaussian", arg, <<0, params.sigma>>, <<>>, out))
    /\ pc' = "salt_pepper"
    /\ UNCHANGED <<edge, loaded, base_image, params, shown, key, saved, writes, exit_code, nops>>

\* Line 85: result = add_salt_pepper_noise(result, salt, pepper).  A ValueError of
\* np.random.randint is caught nowhere: it ends the process (line 166) with status 1.
StageSaltPepper ==
    /\ pc = "salt_pepper"
    /\ LET arg == NextStageInput
       IN  IF add_salt_pepper_noise_raises(arg, params.salt, params.pepper)
           THEN /\ pc' = "crashed"
                /\ exit_code' = 1
                /\ UNCHANGED <<result, calls>>
           ELSE /\ \E sc \in CoordDraws(arg, NumCorrupted(arg, params.salt)),
                      pcs \in CoordDraws(arg, NumCorrupted(arg, params.pepper)) :
                     /\ result' = add_salt_pepper_noise(arg, sc, pcs)
                     /\ calls' = Append(calls,
                            Call("salt_pepper", arg, <<params.salt, params.pepper>>, <<>>,
                                 result'))
                /\ pc' = "discretization"
                /\ exit_code' = exit_code
    /\ UNCHANGED <<edge, loaded, base_image, params, shown, key, saved, writes, nops>>

\* Line 86: result = apply_discretization(result, levels=discretization_levels).
StageDiscretization ==
    /\ pc = "discretization"
    /\ LET arg == NextStageInput
           out == apply_discretization(arg, params.discretization_levels)
       IN  /\ result' = out
           /\ calls' = Append(calls,
                  Call("discretization", arg, <<params.discretization_levels>>, <<>>, out))
    /\ pc' = "motion_blur"
    /\ UNCHANGED <<edge, loaded, base_image, params, shown, key, saved, writes, exit_code, nops>>

\* Line 87: result = apply_motion_blur(result, motion_kernel).
StageMotionBlur ==
    /\ pc = "motion_blur"
    /\ LET arg == NextStageInput
       IN  IF apply_motion_blur_raises(params.motion_kernel)
           THEN /\ pc' = "crashed"
                /\ exit_code' = 1
                /\ UNCHANGED <<result, calls>>
           ELSE /\ LET out == apply_motion_blur(arg, params.motion_kernel)
                   IN  /\ result' = out
                       /\ calls' = Append(calls,
                              Call("motion_blur", arg, <<params.motion_kernel>>, <<>>, out))
                /\ pc' = "imshow"
                /\ exit_code' = exit_code
    /\ UNCHANGED <<edge, loaded, base_image, params, shown, key, saved, writes, nops>>

\* Line 90: cv2.imshow(window_name, result); shown is the frame rendered in the
\* current iteration.
Show ==
    /\ pc = "imshow"
    /\ shown' = result
    /\ pc' = "waitKey"
    /\ UNCHANGED <<edge, loaded, base_image, result, params, calls, key, saved, writes,
                   exit_code, nops>>

\* Line 93: key = cv2.waitKey(50) & 0xFF.
MaskKey(raw) == raw % (KeyMask + 1)

\* Line 95.
IsCancel_Never(k) == FALSE

IsCancel(k) == k = KeyEsc

\* Line 98.
IsCommit_AnyOtherKey(k) == k # KeyEsc

IsCommit(k) == k = KeyLowerS \/ k = KeyUpperS

\* Line 99: the buffer handed to cv2.imwrite.
WrittenBuffer_Base == base_image

WrittenBuffer == result

\* Line 107: saved = True, whatever cv2.imwrite returned (its result is dropped).
SavedAfterWrite(ok) == TRUE

\* Lines 93-108: poll a key; ESC breaks, 's'/'S' writes the image and breaks,
\* anything else (a timeout included) starts the next iteration.
PollKey ==
    /\ pc = "waitKey"
    /\ \E raw \in WaitKeyValues :
        LET k == MaskKey(raw)
        IN  /\ key' = k
            /\ IF IsCancel(k)
               THEN /\ pc' = "destroy"
                    /\ UNCHANGED <<saved, writes, calls, shown>>
               ELSE IF IsCommit(k)
               THEN /\ \E ok \in ImwriteResults :
                         /\ writes' = Append(writes, [img |-> WrittenBuffer, ok |-> ok])
                         /\ saved' = SavedAfterWrite(ok)
                    /\ pc' = "destroy"
                    /\ UNCHANGED <<calls, shown>>
               ELSE /\ pc' = "loop"
                    /\ calls' = <<>>
                    /\ shown' = None
                    /\ UNCHANGED <<saved, writes>>
    /\ UNCHANGED <<edge, loaded, base_image, result, params, exit_code, nops>>

\* Lines 110-111: cv2.destroyAllWindows(); return saved.
DestroyAndReturn ==
    /\ pc = "destroy"
    /\ pc' = "returned"
    /\ UNCHANGED <<edge, loaded, base_image, result, params, calls, shown, key, saved,
                   writes, exit_code, nops>>

\* main, line 163: return 0 if saved else 1.
ExitCode_Zero(s) == 0

ExitCode(s) == IF s THEN 0 ELSE 1

\* main, lines 158-163.
MainReturn ==
    /\ pc = "returned"
    /\ exit_code' = ExitCode(saved)
    /\ pc' = "exit"
    /\ UNCHANGED <<edge, loaded, base_image, result, params, calls, shown, key, saved,
                   writes, nops>>

Next ==
    \/ MainLoad
    \/ CreateWindow
    \/ ReadAndDistort
    \/ StageGaussian
    \/ StageSaltPepper
    \/ StageDiscretization
    \/ StageMotionBlur
    \/ Show
    \/ PollKey
    \/ DestroyAndReturn
    \/ MainReturn

Spec == Init /\ [][Next]_vars

(***************************************************************************)
(* The operators called directly, as the tests do: one call (SpecCall), or *)
(* a sequence of calls in any order (SpecOps).                             *)
(***************************************************************************)
\* Parameter values of a direct call.
OpsMeans == {0}
OpsSigmas == {0, 3}
OpsProbs == {0, 30}
OpsCoefs == {<<0, 0, 0, 0>>, <<50, 0, 25, 100>>}
OpsKernels == {1, 2, 3}
OpsLevels == {0, 3, 256}

\* Parameter values of a single call, valid or not.
CallProbs == {0, 30, ProbMax}
CallKernels == {-1, 0} \cup 1..MaxKernel
CallLevels == {-5, 0, 1, 2, 3, 8, 16, 32, 256, 300}

OpsFrame == UNCHANGED <<edge, loaded, base_image, params, shown, key, saved, writes, exit_code>>

\* What the log keeps of a call: everything for a single call, the operator and
\* its parameters for a call of a sequence.
Logged(full, op, arg, args, draws, out) ==
    IF full THEN Call(op, arg, args, draws, out) ELSE Call(op, None, args, <<>>, None)

\* result = add_gaussian_noise(result, mean, sigma)
ApplyGaussian(full, fields) ==
    /\ \E mean \in OpsMeans, sigma \in OpsSigmas, z \in fields, mode \in CastModes :
        LET out == add_gaussian_noise(result, mean, sigma, z, mode)
        IN  /\ result' = out
            /\ calls' = <<Logged(full, "gaussian", result, <<mean, sigma>>, <<z, mode>>, out)>>
    /\ pc' = IF full THEN "called" ELSE pc

\* result = add_salt_pepper_noise(result, salt_prob, pepper_prob)
ApplySaltPepper(full) ==
    \E sa \in (IF full THEN CallProbs ELSE OpsProbs),
       pe \in (IF full THEN CallProbs ELSE OpsProbs) :
        IF add_salt_pepper_noise_raises(result, sa, pe)
        THEN /\ pc' = "raised"
             /\ calls' = <<Logged(full, "salt_pepper", result, <<sa, pe>>, <<>>, None)>>
             /\ result' = result
        ELSE /\ \E sc \in CoordDraws(result, NumCorrupted(result, sa)),
                   pcs \in CoordDraws(result, NumCorrupted(result, pe)) :
                  LET out == add_salt_pepper_noise(result, sc, pcs)
                  IN  /\ result' = out
                      /\ calls' = <<Logged(full, "salt_pepper", result, <<sa, pe>>,
                                           <<sc, pcs>>, out)>>
             /\ pc' = IF full THEN "called" ELSE pc

\* result = apply_radial_distortion(result, k1, k2, p1, p2)
ApplyDistortion(full) ==
    /\ \E co \in OpsCoefs :
        LET out == apply_radial_distortion(result, co[1], co[2], co[3], co[4])
        IN  /\ result' = out
            /\ calls' = <<Logged(full, "distortion", result, co, <<>>, out)>>
    /\ pc' = IF full THEN "called" ELSE pc

\* result = apply_motion_blur(result, kernel_size)
ApplyMotionBlur(full) ==
    \E ks \in (IF full THEN CallKernels ELSE OpsKernels) :
        IF apply_motion_blur_raises(ks)
        THEN /\ pc' = "raised"
             /\ calls' = <<Logged(full, "motion_blur", result, <<ks>>, <<>>, None)>>
             /\ result' = result
        ELSE /\ LET out == apply_motion_blur(result, ks)
                IN  /\ result' = out
                    /\ calls' = <<Logged(full, "motion_blur", result, <<ks>>, <<>>, out)>>
             /\ pc' = IF full THEN "called" ELSE pc

\* result = apply_discretization(result, levels)
ApplyDiscretization(full) ==
    /\ \E lv \in (IF full THEN CallLevels ELSE OpsLevels) :
        LET out == apply_discretization(result, lv)
        IN  /\ result' = out
            /\ calls' = <<Logged(full, "discretization", result, <<lv>>, <<>>, out)>>
    /\ pc' = IF full THEN "called" ELSE pc

\* One call of one operator on a fresh image.
InitCall ==
    /\ pc = "call"
    /\ loaded \in CallImages
    /\ base_image = loaded
    /\ result = loaded
    /\ params = NoParams
    /\ calls = <<>>
    /\ shown = None
    /\ key = -1
    /\ saved = FALSE
    /\ writes = <<>>
    /\ exit_code = -1
    /\ nops = 0
    /\ edge = NoEdge

CallGaussian ==
    pc = "call" /\ ApplyGaussian(TRUE, NoiseFields(Size(result))) /\ nops' = 1 /\ OpsFrame

CallSaltPepper == pc = "call" /\ ApplySaltPepper(TRUE) /\ nops' = 1 /\ OpsFrame

CallDistortion == pc = "call" /\ ApplyDistortion(TRUE) /\ nops' = 1 /\ OpsFrame

CallMotionBlur == pc = "call" /\ ApplyMotionBlur(TRUE) /\ nops' = 1 /\ OpsFrame

CallDiscretization == pc = "call" /\ ApplyDiscretization(TRUE) /\ nops' = 1 /\ OpsFrame

\* A second call of apply_discretization, on the array the first one returned
\* and with the same levels.
CallDiscretizationAgain ==
    /\ pc = "called" /\ calls # <<>> /\ calls[1].op = "discretization"
    /\ LET out == apply_discretization(result, calls[1].args[1])
       IN  /\ result' = out
           /\ calls' = Append(calls,
                  Call("discretization", result, calls[1].args, <<>>, out))
    /\ pc' = "called_twice"
    /\ nops' = 2
    /\ OpsFrame

NextCall ==
    \/ CallGaussian
    \/ CallSaltPepper
    \/ CallDistortion
    \/ CallMotionBlur
    \/ CallDiscretization
    \/ CallDiscretizationAgain

SpecCall == InitCall /\ [][NextCall]_vars

\* Up to MaxOps calls, in any order, each on the buffer the previous one returned.
InitOps ==
    /\ pc = "ops"
    /\ loaded \in OpsImages
    /\ base_image = loaded
    /\ result = loaded
    /\ params = NoParams
    /\ calls = <<>>
    /\ shown = None
    /\ key = -1
    /\ saved = FALSE
    /\ writes = <<>>
    /\ exit_code = -1
    /\ nops = 0
    /\ edge = NoEdge

OpGaussian ==
    /\ pc = "ops" /\ nops < MaxOps
    /\ ApplyGaussian(FALSE, FirstElementFields(Size(result)))
    /\ nops' = nops + 1 /\ OpsFrame

OpSaltPepper ==
    pc = "ops" /\ nops < MaxOps /\ ApplySaltPepper(FALSE) /\ nops' = nops + 1 /\ OpsFrame

OpDistortion ==
    pc = "ops" /\ nops < MaxOps /\ ApplyDistortion(FALSE) /\ nops' = nops + 1 /\ OpsFrame

OpMotionBlur ==
    pc = "ops" /\ nops < MaxOps /\ ApplyMotionBlur(FALSE) /\ nops' = nops + 1 /\ OpsFrame

OpDiscretization ==
    pc = "ops" /\ nops < MaxOps /\ ApplyDiscretization(FALSE) /\ nops' = nops + 1 /\ OpsFrame

NextOps ==
    \/ OpGaussian
    \/ OpSaltPepper
    \/ OpDistortion
    \/ OpMotionBlur
    \/ OpDiscretization

SpecOps == InitOps /\ [][NextOps]_vars

(***************************************************************************)
(* apply_discretization on a ramp, as test_discretization_reduces_unique_  *)
(* values calls it (SpecRamp).                                             *)
(***************************************************************************)
\* np.repeat(np.arange(256).reshape(1, 256, 1), c, axis=2), the columns rotated by
\* start: every channel of column col holds (start + col) % 256.
ArangeImage(c, start) ==
    [h |-> 1, w |-> 256, c |-> c, nd |-> 3,
     px |-> [i \in 1..(256 * c) |-> (start + (i - 1) \div c) % 256]]

RampStarts == 0..3

RampImages == {ArangeImage(c, start) : c \in {1, ImreadChannels}, start \in RampStarts}

\* The levels the 'Discretization' control can ask for.
RampLevels == 1..DiscretizationMax

InitRamp ==
    /\ pc = "ramp"
    /\ loaded \in RampImages
    /\ base_image = loaded
    /\ result = loaded
    /\ params = NoParams
    /\ calls = <<>>
    /\ shown = None
    /\ key = -1
    /\ saved = FALSE
    /\ writes = <<>>
    /\ exit_code = -1
    /\ nops = 0
    /\ edge = NoEdge

\* result = apply_discretization(img, levels)
QuantizeRamp ==
    /\ pc = "ramp"
    /\ \E lv \in RampLevels :
        /\ result' = apply_discretization(result, lv)
        /\ calls' = <<Call("discretization", None, <<lv>>, <<>>, None)>>
    /\ pc' = "ramped"
    /\ nops' = 1
    /\ OpsFrame

NextRamp == QuantizeRamp

SpecRamp == InitRamp /\ [][NextRamp]_vars

(***************************************************************************)
(* One call of generate_edge_point (SpecEdge).                             *)
(***************************************************************************)
InitEdge ==
    /\ pc = "edge"
    /\ loaded = None
    /\ base_image = None
    /\ result = None
    /\ params = NoParams
    /\ calls = <<>>
    /\ shown = None
    /\ key = -1
    /\ saved = FALSE
    /\ writes = <<>>
    /\ exit_code = -1
    /\ nops = 0
    /\ \E point \in EdgePoints, quaternion \in EdgeQuaternions,
          focal_length \in EdgeFocalLengths :
          edge = [pc |-> "args", point |-> point, quaternion |-> quaternion,
                  focal_length |-> focal_length, outcome |-> Raised("")]

GenerateEdgePoint ==
    /\ pc = "edge" /\ edge.pc = "args"
    /\ edge' = [edge EXCEPT
                  !.pc = "done",
                  !.outcome = generate_edge_point(edge.point, edge.quaternion,
                                                  edge.focal_length)]
    /\ UNCHANGED <<pc, loaded, base_image, result, params, calls, shown, key, saved,
                   writes, exit_code, nops>>

NextEdge == GenerateEdgePoint

SpecEdge == InitEdge /\ [][NextEdge]_vars

(***************************************************************************)
(* Properties.                                                             *)
(***************************************************************************)
LastCallIs(op) == calls # <<>> /\ calls[Len(calls)].op = op

LastCall == calls[Len(calls)]

\* C1: after any sequence of direct operator calls with valid parameters the
\* buffer has the height, width and channel count of the initial image and every
\* element is an integer in 0..255.
C1_ShapeAndRangePreserved ==
    pc \in {"ops", "raised"} => SameShape(result, loaded) /\ ValidImage(result)

\* C2: within an iteration the stages run in the order distortion, Gaussian
\* noise, salt-and-pepper, quantization, motion blur, each at most once, each
\* later stage on exactly the previous stage's output; an iteration that reaches
\* the render step has run all five.
StagesDone ==
    CASE pc = "gaussian" -> 1
      [] pc = "salt_pepper" -> 2
      [] pc = "discretization" -> 3
      [] pc = "motion_blur" -> 4
      [] pc \in {"imshow", "waitKey"} -> 5
      [] OTHER -> Len(calls)

C3_BaseImageNeverModified ==
    pc \notin {"ops", "call", "called", "raised"} =>
        /\ base_image = loaded
        /\ (calls # <<>> => calls[1].arg = loaded)

C3_Witness ==
    /\ pc = "gaussian" /\ key = 113
    /\ calls[1].arg = loaded
    /\ calls[1].out # loaded
    /\ base_image = loaded

\* C4: once a poll has yielded ESC the loop has left the pipeline for good:
\* nothing was ever written, saved is False and main ends with 1.
C4_CancelTerminatesWithoutSaving ==
    (pc \notin {"ops", "call", "called", "raised"} /\ key = KeyEsc) =>
        /\ pc \in {"destroy", "returned", "exit"}
        /\ Len(calls) = 5
        /\ shown = result
        /\ writes = <<>>
        /\ saved = FALSE
        /\ (pc = "exit" => exit_code = 1)

C4_Witness == pc = "returned" /\ key = KeyEsc /\ saved = FALSE /\ Len(calls) = 5

C6_SaveFailureReported ==
    (writes # <<>> /\ ~writes[1].ok) =>
        /\ saved = FALSE
        /\ (pc = "exit" => exit_code # 0)

\* C7: main returns 0 exactly when the image loaded and the session returned
\* True, and 1 otherwise; when the load fails no window is opened and no stage
\* runs.
C7_ExitCode ==
    /\ (pc = "exit" =>
          /\ exit_code \in {0, 1}
          /\ (exit_code = 0 <=> (loaded # None /\ saved)))
    /\ ((pc \notin {"main", "ops", "call", "called", "raised"} /\ loaded = None) =>
          /\ pc = "exit"
          /\ exit_code = 1
          /\ calls = <<>> /\ result = None /\ shown = None /\ writes = <<>>)

C7_Witness == pc = "exit" /\ exit_code = 0 /\ loaded # None /\ saved /\ Len(writes) = 1

\* C8: add_gaussian_noise returns, for every element e and sample n, the
\* saturated sum clamp(e + r, 0, 255) for an integer r that n rounds to
\* (floor or ceiling of n): a negative sample lowers the element.
SampleRoundings(num, den) == {num \div den, CeilDiv(num, den)}

C8_SaturatedSum ==
    (pc = "called" /\ LastCallIs("gaussian")) =>
        \A i \in 1..Len(LastCall.arg.px) :
            \E r \in SampleRoundings(
                        LastCall.args[1] * ZDen + LastCall.args[2] * LastCall.draws[1][i], ZDen) :
                LastCall.out.px[i] = Clamp(LastCall.arg.px[i] + r, 0, 255)

\* C9: with sigma = 0 and mean = 0 every element add_gaussian_noise returns
\* equals the input's element at the same position.
C9_ZeroSigmaIdentity ==
    (pc = "called" /\ LastCallIs("gaussian") /\ LastCall.args = <<0, 0>>) =>
        /\ LastCall.out.h = LastCall.arg.h /\ LastCall.out.w = LastCall.arg.w
        /\ LastCall.out.px = LastCall.arg.px

C9_Witness ==
    /\ pc = "called" /\ LastCallIs("gaussian") /\ LastCall.args = <<0, 0>>
    /\ \E i \in 1..Len(LastCall.draws[1]) : LastCall.draws[1][i] # 0
    /\ Len(LastCall.arg.px) >= 2
    /\ LastCall.arg.px[1] # LastCall.arg.px[2]
    /\ LastCall.out.px = LastCall.arg.px

\* C10: the row, column and channel indices add_salt_pepper_noise draws cover
\* the full range of their axis, 0..size-1.
C10_FullAxisRange ==
    pc \in {"call", "called"} =>
        \A a \in 1..Len(AxisSizes(loaded)) :
            AxisDraws(AxisSizes(loaded)[a]) = 0..(AxisSizes(loaded)[a] - 1)

\* The buffer positions a coordinate array selects.
Selected(image, coords) ==
    {Idx(image, coords[j][1], coords[j][2], coords[j][3]) : j \in 1..Len(coords)}

\* C11: in the output of add_salt_pepper_noise every position the pepper draw
\* selected holds 0, whether or not the salt draw selected it too, and every
\* position only the salt draw selected holds 255.
C11_SaltBeforePepper ==
    (pc = "called" /\ LastCallIs("salt_pepper")) =>
        LET salt   == Selected(LastCall.arg, LastCall.draws[1])
            pepper == Selected(LastCall.arg, LastCall.draws[2])
        IN  \A i \in 1..Size(LastCall.arg) :
                /\ (i \in pepper => LastCall.out.px[i] = 0)
                /\ (i \in salt \ pepper => LastCall.out.px[i] = 255)

C11_Witness ==
    /\ pc = "called" /\ LastCallIs("salt_pepper")
    /\ \E i \in Selected(LastCall.arg, LastCall.draws[1])
                  \cap Selected(LastCall.arg, LastCall.draws[2]) :
          LastCall.arg.px[i] \notin {0, 255} /\ LastCall.out.px[i] = 0

\* C12: with salt_prob = 0 and pepper_prob = 0 add_salt_pepper_noise does not
\* raise and returns an array equal to its input, shape and elements.
C12_ZeroProbabilityIdentity ==
    (pc \in {"called", "raised"} /\ LastCallIs("salt_pepper") /\ LastCall.args = <<0, 0>>) =>
        /\ pc = "called"
        /\ LastCall.out = LastCall.arg

C12_Witness ==
    /\ pc = "called" /\ LastCallIs("salt_pepper") /\ LastCall.args = <<0, 0>>
    /\ LastCall.arg.h = 1 /\ LastCall.arg.w = 2
    /\ LastCall.arg.px[1] # LastCall.arg.px[2]
    /\ LastCall.out = LastCall.arg

\* C13: with k1 = k2 = p1 = p2 = 0 the source coordinate of every destination
\* pixel (u, v) is (u, v) itself, for odd and even widths and heights, and
\* every element apply_radial_distortion returns equals the input's element at
\* the same position.
C13_ZeroCoefficientsIdentity ==
    (pc = "called" /\ LastCallIs("distortion") /\ LastCall.args = <<0, 0, 0, 0>>) =>
        /\ \A u \in 0..(LastCall.arg.w - 1), v \in 0..(LastCall.arg.h - 1) :
              /\ MapXNum(LastCall.arg.w, LastCall.arg.h, u, v, 0, 0, 0, 0) = u * MapDen
              /\ MapYNum(LastCall.arg.w, LastCall.arg.h, u, v, 0, 0, 0, 0) = v * MapDen
        /\ LastCall.out.h = LastCall.arg.h /\ LastCall.out.w = LastCall.arg.w
        /\ LastCall.out.px = LastCall.arg.px

C13_Witness ==
    /\ pc = "called" /\ LastCallIs("distortion") /\ LastCall.args = <<0, 0, 0, 0>>
    /\ LastCall.arg.h = 1 /\ LastCall.arg.w = 2 /\ LastCall.arg.c = ImreadChannels
    /\ LastCall.arg.px[1] # LastCall.arg.px[1 + ImreadChannels]
    /\ LastCall.out.px = LastCall.arg.px

\* C14: for every kernel_size <= 1 (1, 0 and negative values) apply_motion_blur
\* does not raise and returns its input's elements unchanged.
C14_SmallKernelIdentity ==
    (pc \in {"called", "raised"} /\ LastCallIs("motion_blur") /\ LastCall.args[1] <= 1) =>
        /\ pc = "called"
        /\ LastCall.out.px = LastCall.arg.px

\* C15: for every integer levels and every element e, apply_discretization
\* returns clamp(floor(e / step) * step, 0, 255) with step = max(1, 256 // levels),
\* levels below 1 counting as 1, and every returned element is a multiple of step.
C15_QuantizationFormula ==
    (pc = "called" /\ LastCallIs("discretization")) =>
        LET levels == IF LastCall.args[1] < 1 THEN 1 ELSE LastCall.args[1]
            step   == IF 256 \div levels > 1 THEN 256 \div levels ELSE 1
        IN  \A i \in 1..Len(LastCall.arg.px) :
                /\ LastCall.out.px[i] = Clamp((LastCall.arg.px[i] \div step) * step, 0, 255)
                /\ LastCall.out.px[i] % step = 0

C15_Witness ==
    /\ pc = "called" /\ LastCallIs("discretization") /\ LastCall.args[1] < 0
    /\ \E i \in 1..Len(LastCall.arg.px) : LastCall.arg.px[i] > 0 /\ LastCall.out.px[i] = 0

\* The sum of f[0], ..., f[n - 1].
RECURSIVE SumTo(_, _)
SumTo(f, n) == IF n = 0 THEN 0 ELSE f[n - 1] + SumTo(f, n - 1)

Channel(image, ch) ==
    {image.px[Idx(image, r, col, ch)] : r \in 0..(image.h - 1), col \in 0..(image.w - 1)}

\* C16: for levels in 2..16 and an input whose channels contain all 256
\* values, every channel of apply_discretization's output has no more distinct
\* values than the input's channel, and at most levels + 5.
C16_DistinctValuesBounded ==
    (pc = "ramped" /\ LastCall.args[1] \in 2..16
       /\ \A ch \in 0..(loaded.c - 1) : Cardinality(Channel(loaded, ch)) = 256) =>
        \A ch \in 0..(loaded.c - 1) :
            /\ Cardinality(Channel(result, ch)) <= Cardinality(Channel(loaded, ch))
            /\ Cardinality(Channel(result, ch)) <= LastCall.args[1] + 5

C16_Witness ==
    /\ pc = "ramped" /\ LastCall.args[1] = 15 /\ loaded.c = ImreadChannels
    /\ Cardinality(Channel(loaded, 2)) = 256
    /\ Cardinality(Channel(result, 2)) = 16

\* C17: in every iteration, whatever the controls report, the level handed to
\* apply_discretization is in 1..32, the kernel size handed to
\* apply_motion_blur is in 1..100, the salt and pepper probabilities are in
\* [0, 0.1] and the four distortion coefficients in [0, 1.0].
C17_ParametersInRange ==
    (pc \notin {"ops", "call", "called", "raised", "ramp", "ramped"} /\ calls # <<>>) =>
        /\ params.discretization_levels \in 1..32
        /\ params.motion_kernel \in 1..100
        /\ \A pr \in {params.salt, params.pepper} : 0 <= pr /\ 10 * pr <= ProbDen
        /\ \A co \in {params.k1, params.k2, params.p1, params.p2} : 0 <= co /\ co <= CoefDen
        /\ \A i \in 1..Len(calls) :
              /\ (calls[i].op = "distortion" =>
                    calls[i].args = <<params.k1, params.k2, params.p1, params.p2>>)
              /\ (calls[i].op = "salt_pepper" => calls[i].args = <<params.salt, params.pepper>>)
              /\ (calls[i].op = "discretization" =>
                    calls[i].args = <<params.discretization_levels>> /\ calls[i].args[1] >= 1)
              /\ (calls[i].op = "motion_blur" =>
                    calls[i].args = <<params.motion_kernel>> /\ calls[i].args[1] >= 1)

C17_Witness ==
    /\ pc = "imshow" /\ Len(calls) = 5
    /\ calls[4].args = <<1>> /\ calls[5].args = <<1>>
    /\ calls[3].args = <<ProbMax, ProbMax>>

\* The states of the interactive loop: Running from the first trackbar read to
\* the key poll, Cancelled and Committed after the break at line 97 or 108.
Running ==
    pc \in {"loop", "gaussian", "salt_pepper", "discretization", "motion_blur",
            "imshow", "waitKey"}

Cancelled == pc \in {"destroy", "returned", "exit"} /\ key = KeyEsc

Committed == pc \in {"destroy", "returned", "exit"} /\ key \in {KeyLowerS, KeyUpperS}

NumericVector(arg, n) ==
    /\ arg.iterable /\ Len(arg.items) = n
    /\ \A i \in 1..n : arg.items[i].t \in {"num", "nan"}

\* The camera-frame z of the rotated point exists and exceeds 1e-12.
CameraZExceedsEpsilon(point, quaternion) ==
    /\ ~HasNaN(point.items) /\ ~HasNaN(quaternion.items)
    /\ QuatNorm2(quaternion.items) > 0
    /\ CameraZNum(quaternion.items, point.items) > 0

\* C18: generate_edge_point returns a point exactly when focal_length > 0,
\* point has 3 numeric components, quaternion has 4 numeric components and the
\* rotated point's camera-frame z exceeds 1e-12; otherwise it raises:
\* ValueError for a focal length that is not positive, TypeError for an
\* argument that cannot be iterated, ValueError for a wrong length.
C18_ReturnsOnlyValidProjection ==
    (pc = "edge" /\ edge.pc = "done") =>
        /\ edge.outcome.kind \in {"FilmEdgePoint", "ValueError", "TypeError"}
        /\ edge.outcome.kind = "FilmEdgePoint" <=>
              /\ edge.focal_length.t = "num" /\ edge.focal_length.v > 0
              /\ NumericVector(edge.point, 3)
              /\ NumericVector(edge.quaternion, 4)
              /\ CameraZExceedsEpsilon(edge.point, edge.quaternion)
        /\ (edge.focal_length.t = "num" /\ edge.focal_length.v <= 0) =>
              edge.outcome.kind = "ValueError"
        /\ (edge.focal_length.t = "num" /\ edge.focal_length.v > 0
              /\ ~edge.point.iterable) => edge.outcome.kind = "TypeError"
        /\ (edge.focal_length.t = "num" /\ edge.focal_length.v > 0
              /\ \E n \in {2, 4} : NumericVector(edge.point, n)) =>
              edge.outcome.kind = "ValueError"

\* The positions at which two buffers of the same size differ.
Changed(a, b) == {i \in 1..Len(a.px) : a.px[i] # b.px[i]}

\* C21: add_salt_pepper_noise changes at most ceil(salt_prob * N)
\* + ceil(pepper_prob * N) elements of an image of N elements; every changed
\* element holds 0 or 255, and every element neither draw selected is
\* unchanged.
C21_BoundedCorruption ==
    (pc = "called" /\ LastCallIs("salt_pepper")) =>
        LET N        == LastCall.arg.h * LastCall.arg.w * LastCall.arg.c
            bound    == CeilDiv(LastCall.args[1] * N, ProbDen)
                          + CeilDiv(LastCall.args[2] * N, ProbDen)
            selected == Selected(LastCall.arg, LastCall.draws[1])
                          \cup Selected(LastCall.arg, LastCall.draws[2])
        IN  /\ Len(LastCall.out.px) = N
            /\ Cardinality(Changed(LastCall.arg, LastCall.out)) <= bound
            /\ \A i \in Changed(LastCall.arg, LastCall.out) : LastCall.out.px[i] \in {0, 255}
            /\ \A i \in (1..N) \ selected : LastCall.out.px[i] = LastCall.arg.px[i]

C21_Witness ==
    /\ pc = "called" /\ LastCallIs("salt_pepper") /\ LastCall.args = <<30, 30>>
    /\ LastCall.arg.c = ImreadChannels
    /\ Cardinality(Changed(LastCall.arg, LastCall.out)) = 2
    /\ \E i \in 1..Len(LastCall.out.px) : LastCall.out.px[i] \notin {0, 255}

\* C22: for every image with height, width and channel count >= 1 and every
\* salt_prob and pepper_prob in [0, 1], add_salt_pepper_noise returns an image:
\* no call ends in an error.
C22_SaltPepperNeverRaises ==
    (pc \in {"called", "raised"} /\ LastCallIs("salt_pepper")) =>
        /\ pc = "called"
        /\ ValidImage(LastCall.out) /\ SameShape(LastCall.out, LastCall.arg)

\* C23: apply_discretization never raises an element and lowers it by less
\* than step = max(1, 256 // max(1, levels)); applied again with the same
\* levels to its own output it returns that output unchanged.
C23_IdempotentAndLowering ==
    /\ (pc \in {"called", "called_twice"} /\ calls[1].op = "discretization") =>
          LET levels == IF calls[1].args[1] > 1 THEN calls[1].args[1] ELSE 1
              step   == IF 256 \div levels > 1 THEN 256 \div levels ELSE 1
          IN  \A i \in 1..Len(calls[1].arg.px) :
                  /\ 0 <= calls[1].arg.px[i] - calls[1].out.px[i]
                  /\ calls[1].arg.px[i] - calls[1].out.px[i] < step
    /\ pc = "called_twice" =>
          /\ Len(calls) = 2
          /\ calls[2].args = calls[1].args
          /\ calls[2].arg = calls[1].out
          /\ calls[2].out = calls[1].out
          /\ result = calls[1].out

C23_Witness ==
    /\ pc = "called_twice" /\ calls[1].args = <<3>>
    /\ calls[1].out.px # calls[1].arg.px
    /\ \E i \in 1..Len(calls[1].out.px) : calls[1].out.px[i] # 0
    /\ calls[2].out = calls[1].out

====
